---------------------------- MODULE Spec2Model ----------------------------
(***************************************************************************)
(* The emulation scheduler run_ppu (src/src/run.rs) with the frame surface *)
(* and control channel of src/src/screen.rs, and the presentation loop of  *)
(* run_cpu that feeds it.                                                  *)
(*                                                                         *)
(* Two threads: the emulation thread executes run_ppu; the presentation    *)
(* (main) thread executes the event-loop closure of run_cpu.  In the two   *)
(* headless entry points only the emulation thread exists.                 *)
(*                                                                         *)
(* Time is counted in CPU clock periods (1 / CPU_FREQ seconds), so that    *)
(* the expected time of c cycles is c time units.                          *)
(***************************************************************************)
EXTENDS Integers, Sequences, FiniteSets, TLC

(***************************************************************************)
(* Program constants.                                                      *)
(***************************************************************************)
ITER_PER_CYCLE == 1000

WIDTH == 256

HEIGHT == 240

\* the `for _ in 0..3` of PPU updates per CPU step
PPU_PER_CPU == 3

\* length of the destination slice ppu.pointed_pixel[..2]
SampleDestLen == 2

\* length of the source range a .. a+3 of the shared surface
SampleSrcLen == 3

\* alpha byte written by draw_pixel
ALPHA == 255

I32_MAX == 2147483647

I32_MIN == -I32_MAX - 1

\* the largest value of the u8 index of get_by_index
U8_MAX == 255

\* crate::CPU_FREQ, the clock frequency of the emulated CPU in Hz; real time
\* is counted in periods of this clock
CPU_FREQ == 1789773

\* Duration::from_secs_f64(0.2), in clock periods
BehindThreshold == CPU_FREQ \div 5

\* how long the emulation thread can be descheduled
LongStall == BehindThreshold

\* max_cycles = None
NoLimit == -1

\* a CPU collaborator whose tick never fails
Never == -1

(***************************************************************************)
(* Bounds of the model.                                                    *)
(***************************************************************************)
\* batches explored before an unbounded run is cut off
MaxBatches == 2

\* control messages sent by the presentation thread in one run
MaxMsgs == 2

\* granularity of the passage of real time, and its horizon
TimeStep == 1000

MaxTime == 2000

(***************************************************************************)
(* Inputs.                                                                 *)
(***************************************************************************)
BoundaryOffsets == {-1, 0, 1}

Limits == {l \in {b * ITER_PER_CYCLE + d : b \in 0..(MaxBatches - 1), d \in BoundaryOffsets} : l >= 0}

FailPoints == {Never} \cup {b * ITER_PER_CYCLE + d : b \in 0..(MaxBatches - 1), d \in {0, 1}}

\* the failure points of an interactive run, which ends in its first inner
\* step: a CPU that never fails and one whose first tick fails
EarlyFailPoints == {f \in FailPoints : f < 1}

ButtonNames == {"A1", "B1", "Up1", "Down1", "Left1", "Right1", "Start1", "Select1",
                "A2", "B2", "Up2", "Down2", "Left2", "Right2", "Start2", "Select2"}

\* keys of the keyboard table that the user presses in the explored runs
KeysPressed == {"Start1", "Right2"}

\* cursor positions reported by the window system (client coordinates)
CursorPositions == {<<128, 120>>, <<-5, 500>>}

\* client sizes the window takes
WindowSizes == {<<2 * WIDTH, 2 * HEIGHT>>, <<WIDTH, HEIGHT>>}

\* pixels of the frame whose bytes the model tracks
TrackedPixels == {<<WIDTH - 1, HEIGHT - 1>>}

\* pixels the PPU draws: the tracked ones and the left neighbour of the last
DrawnPixels == TrackedPixels \cup {<<WIDTH - 2, HEIGHT - 1>>}

\* colours the PPU draws with
Colors == {<<255, 128, 1>>}

VARIABLES
    mode,          \* entry point: "headless_for", "headless" or "interactive"
    max_cycles,    \* run_ppu's max_cycles (NoLimit for None)
    fail_after,    \* the CPU collaborator: ticks that succeed before one fails
    pc,            \* position of the emulation thread in run_ppu
    iteration,     \* loop variable of the inner batch
    upd,           \* loop variable of the PPU updates of one step
    cycles, busy_time, last_tick, now_local, sleep_for,
    advisories,    \* "emulation behind" messages printed
    px, py,
    buttons,       \* ppu.buttons
    pointed_pixel, \* ppu.pointed_pixel
    result,        \* what run_ppu returned: "None", "Ok", "Err" or "Panic"
    cpu_steps,     \* successful cpu.tick calls
    ppu_updates,   \* ppu.update calls
    staging,       \* ScreenWriter::Real.pixels
    surface,       \* the frame of ScreenReader::Real.pixels
    lock,          \* owner of the Mutex around the surface
    poisoned,      \* the Mutex is poisoned
    copy_idx,      \* progress of clone_from_slice in render_frame
    published,     \* staging buffer as of the last completed render_frame
    sent,          \* every message sent on the channel, in send order
    consumed,      \* how many of them the receiver has taken
    tx_alive,      \* control_tx has not been dropped
    window_size,   \* window.inner_size()
    main_pc,       \* position of the presentation thread
    handle,        \* the Option<JoinHandle> of run_cpu
    displayed,     \* what the last redraw presented
    clock,         \* real time
    paused_time,   \* real time the emulation thread spent in the pause loop
    skipped_time   \* un-paused real time between last_tick and the start of a pause

config == <<mode, max_cycles, fail_after>>

sched == <<pc, iteration, upd, cycles, busy_time, last_tick, now_local, sleep_for,
          advisories, result>>

ppu == <<px, py, buttons, pointed_pixel, cpu_steps, ppu_updates>>

frame == <<staging, surface, lock, poisoned, copy_idx, published>>

chan == <<sent, consumed, tx_alive>>

main == <<window_size, main_pc, handle, displayed>>

time == <<clock, paused_time, skipped_time>>

vars == <<config, sched, ppu, frame, chan, main, time>>


(***************************************************************************)
(* Buttons (screen.rs) and the Button arm of the drain (run.rs).           *)
(***************************************************************************)
DefaultButtons ==
    [a1 |-> FALSE, b1 |-> FALSE, up1 |-> FALSE, down1 |-> FALSE,
     left1 |-> FALSE, right1 |-> FALSE, select1 |-> FALSE, start1 |-> FALSE,
     a2 |-> FALSE, b2 |-> FALSE, up2 |-> FALSE, down2 |-> FALSE,
     left2 |-> FALSE, right2 |-> FALSE, select2 |-> FALSE, start2 |-> FALSE]

get_by_indexFieldOrder(b, idx) ==
    CASE idx = 0 -> b.a1
      [] idx = 1 -> b.b1
      [] idx = 2 -> b.up1
      [] idx = 3 -> b.down1
      [] idx = 4 -> b.left1
      [] idx = 5 -> b.right1
      [] idx = 6 -> b.select1
      [] idx = 7 -> b.start1
      [] idx = 8 -> b.a2
      [] idx = 9 -> b.b2
      [] idx = 10 -> b.up2
      [] idx = 11 -> b.down2
      [] idx = 12 -> b.left2
      [] idx = 13 -> b.right2
      [] idx = 14 -> b.select2
      [] idx = 15 -> b.start2
      [] OTHER -> FALSE

get_by_index(b, idx) ==
    CASE idx = 0 -> b.a1
      [] idx = 1 -> b.b1
      [] idx = 2 -> b.select1
      [] idx = 3 -> b.start1
      [] idx = 4 -> b.up1
      [] idx = 5 -> b.down1
      [] idx = 6 -> b.left1
      [] idx = 7 -> b.right1
      [] idx = 8 -> b.a2
      [] idx = 9 -> b.b2
      [] idx = 10 -> b.select2
      [] idx = 11 -> b.start2
      [] idx = 12 -> b.up2
      [] idx = 13 -> b.down2
      [] idx = 14 -> b.left2
      [] idx = 15 -> b.right2
      [] OTHER -> FALSE

SetButtonSwapped(b, name, pressed) ==
    CASE name = "Start1" -> [b EXCEPT !.select1 = pressed]
      [] name = "Select1" -> [b EXCEPT !.start1 = pressed]
      [] name = "Right2" -> [b EXCEPT !.left2 = pressed]
      [] OTHER -> b

SetButton(b, name, pressed) ==
    CASE name = "A1" -> [b EXCEPT !.a1 = pressed]
      [] name = "B1" -> [b EXCEPT !.b1 = pressed]
      [] name = "Up1" -> [b EXCEPT !.up1 = pressed]
      [] name = "Down1" -> [b EXCEPT !.down1 = pressed]
      [] name = "Left1" -> [b EXCEPT !.left1 = pressed]
      [] name = "Right1" -> [b EXCEPT !.right1 = pressed]
      [] name = "Start1" -> [b EXCEPT !.start1 = pressed]
      [] name = "Select1" -> [b EXCEPT !.select1 = pressed]
      [] name = "A2" -> [b EXCEPT !.a2 = pressed]
      [] name = "B2" -> [b EXCEPT !.b2 = pressed]
      [] name = "Up2" -> [b EXCEPT !.up2 = pressed]
      [] name = "Down2" -> [b EXCEPT !.down2 = pressed]
      [] name = "Left2" -> [b EXCEPT !.left2 = pressed]
      [] name = "Right2" -> [b EXCEPT !.right2 = pressed]
      [] name = "Start2" -> [b EXCEPT !.start2 = pressed]
      [] name = "Select2" -> [b EXCEPT !.select2 = pressed]

(***************************************************************************)
(* Control messages (screen.rs, enum Message).                             *)
(***************************************************************************)
Button(name, pressed) == <<"Button", name, pressed>>

Pause(p) == <<"Pause", p>>

PixelPointed(x, y) == <<"PixelPointed", x, y>>

\* the messages still in the channel
Queue == SubSeq(sent, consumed + 1, Len(sent))

(***************************************************************************)
(* Pointer-to-pixel resolution (run.rs, the PixelPointed arm).             *)
(***************************************************************************)
Min(a, b) == IF a < b THEN a ELSE b

Max(a, b) == IF a > b THEN a ELSE b

\* integer part of n / d, rounding toward zero (d > 0)
TruncDiv(n, d) == IF n >= 0 THEN n \div d ELSE -((-n) \div d)

\* `as i32` of a float: saturating
CastI32(v) == Max(I32_MIN, Min(I32_MAX, v))

\* (dim as f64 * (pos / size as f64)) as i32.  A zero size divides by zero:
\* the quotient is an infinity, or NaN (cast to 0) when pos is zero too.
Scale(dim, pos, size) ==
    IF size = 0
    THEN (IF pos > 0 THEN I32_MAX ELSE IF pos < 0 THEN I32_MIN ELSE 0)
    ELSE CastI32(TruncDiv(dim * pos, size))

ClampNone(v, dim) == v

\* v.min(0).max(dim as i32 - 1)
Clamp(v, dim) == Max(Min(v, 0), dim - 1)

ResolveX(posx, size) == Clamp(Scale(WIDTH, posx, size[1]), WIDTH)

ResolveY(posy, size) == Clamp(Scale(HEIGHT, posy, size[2]), HEIGHT)

(***************************************************************************)
(* The pixel buffers (screen.rs).  Both are WIDTH * HEIGHT * 4 bytes; the  *)
(* model keeps the bytes of the tracked pixels.                            *)
(***************************************************************************)
FrameSize == WIDTH * HEIGHT * 4

PixelOffset(x, y) == 4 * (y * WIDTH + x)

TrackedBytes == UNION {{PixelOffset(p[1], p[2]) + k : k \in 0..3} : p \in TrackedPixels}

\* the tracked bytes below offset o: the position of o in copy order
Rank(o) == Cardinality({t \in TrackedBytes : t < o})

NthTracked(n) == CHOOSE o \in TrackedBytes : Rank(o) = n

\* Pixels::new: a zeroed frame; Screen::new: buf = pixels.frame().to_vec()
InitialFrame == [o \in TrackedBytes |-> 0]

ByteAt(buf, o) == IF o \in DOMAIN buf THEN buf[o] ELSE 0

draw_pixelFiveBytes(buf, x, y, color) ==
    [o \in DOMAIN buf |->
        IF o = PixelOffset(x, y) THEN color[1]
        ELSE IF o = PixelOffset(x, y) + 1 THEN color[2]
        ELSE IF o = PixelOffset(x, y) + 2 THEN color[3]
        ELSE IF o = PixelOffset(x, y) + 3 THEN ALPHA
        ELSE IF o = PixelOffset(x, y) + 4 THEN ALPHA
        ELSE buf[o]]

\* ScreenWriter::draw_pixel on a Real writer, on the tracked bytes of buf
draw_pixel(buf, x, y, color) ==
    [o \in DOMAIN buf |->
        IF o = PixelOffset(x, y) THEN color[1]
        ELSE IF o = PixelOffset(x, y) + 1 THEN color[2]
        ELSE IF o = PixelOffset(x, y) + 2 THEN color[3]
        ELSE IF o = PixelOffset(x, y) + 3 THEN ALPHA
        ELSE buf[o]]

(***************************************************************************)
(* Initial states: the three entry points.                                 *)
(***************************************************************************)
InitScheduler ==
    /\ pc = IF mode = "interactive" THEN "drain" ELSE "tick"
    /\ iteration = 0
    /\ upd = 0
    /\ cycles = 0
    /\ busy_time = 0
    /\ last_tick = 0
    /\ now_local = 0
    /\ sleep_for = 0
    /\ advisories = 0
    /\ px = 0
    /\ py = 0
    /\ buttons = DefaultButtons
    /\ pointed_pixel = <<0, 0, 0>>
    /\ result = "None"
    /\ cpu_steps = 0
    /\ ppu_updates = 0
    /\ staging = InitialFrame
    /\ surface = InitialFrame
    /\ lock = "free"
    /\ poisoned = FALSE
    /\ copy_idx = 0
    /\ published = InitialFrame
    /\ sent = <<>>
    /\ consumed = 0
    /\ window_size = <<2 * WIDTH, 2 * HEIGHT>>
    /\ displayed = <<>>
    /\ clock = 0
    /\ paused_time = 0
    /\ skipped_time = 0

\* run_cpu_headless_for(cpu, mirroring, cycle_limit)
InitHeadlessFor ==
    /\ mode = "headless_for"
    /\ max_cycles \in Limits
    /\ fail_after \in FailPoints
    /\ tx_alive = FALSE
    /\ main_pc = "none"
    /\ handle = "None"
    /\ InitScheduler

\* run_cpu_headless(cpu, mirroring)
InitHeadless ==
    /\ mode = "headless"
    /\ max_cycles = NoLimit
    /\ fail_after \in FailPoints
    /\ tx_alive = FALSE
    /\ main_pc = "none"
    /\ handle = "None"
    /\ InitScheduler

\* run_cpu(cpu, mirroring)
InitInteractive ==
    /\ mode = "interactive"
    /\ max_cycles = NoLimit
    /\ fail_after \in EarlyFailPoints
    /\ tx_alive = TRUE
    /\ main_pc = "idle"
    /\ handle = "Some"
    /\ InitScheduler

Init == InitHeadlessFor \/ InitHeadless \/ InitInteractive

(***************************************************************************)
(* run_ppu: the emulation thread.                                          *)
(***************************************************************************)
WriterIsRealAlways == TRUE

\* `if let ScreenWriter::Real {..} = writer`: Screen::new builds the Real
\* writer over a Real reader (run_cpu), Screen::dummy the Dummy pair.
WriterIsReal == mode = "interactive"

ReaderIsReal == mode = "interactive"

\* where an inner step starts: the drain is skipped for a Dummy writer
StepStart == IF WriterIsReal THEN "drain" ELSE "tick"

\* the run_ppu thread has ended (its receiver is dropped with it)
EmuFinished == pc = "panicked"

ApplyPixelPointed(posx, posy) ==
    IF ReaderIsReal
    THEN /\ px' = ResolveX(posx, window_size)
         /\ py' = ResolveY(posy, window_size)
    ELSE UNCHANGED <<px, py>>

\* one `Ok(msg) = buttons_rx.try_recv()` and the match on msg
DrainRecv ==
    /\ pc = "drain"
    /\ consumed < Len(sent)
    /\ LET msg == sent[consumed + 1] IN
         /\ consumed' = consumed + 1
         /\ IF msg[1] = "Button"
            THEN /\ buttons' = SetButton(buttons, msg[2], msg[3])
                 /\ UNCHANGED <<pc, px, py>>
            ELSE IF msg[1] = "Pause"
            THEN /\ pc' = IF msg[2] THEN "pause" ELSE "drain"
                 /\ UNCHANGED <<buttons, px, py>>
            ELSE /\ ApplyPixelPointed(msg[2], msg[3])
                 /\ UNCHANGED <<pc, buttons>>
         /\ skipped_time' = IF msg = Pause(TRUE)
                            THEN skipped_time + (clock - last_tick)
                            ELSE skipped_time
    /\ UNCHANGED <<config, iteration, upd, cycles, busy_time, advisories, last_tick, now_local,
                   sleep_for, result, pointed_pixel, cpu_steps, ppu_updates, frame,
                   sent, tx_alive, main, clock, paused_time>>

\* try_recv returns Err (empty, or empty and disconnected): the drain ends
DrainEmpty ==
    /\ pc = "drain"
    /\ consumed = Len(sent)
    /\ pc' = "tick"
    /\ UNCHANGED <<config, iteration, upd, cycles, busy_time, advisories, last_tick, now_local,
                   sleep_for, result, ppu, frame, chan, main, time>>

\* one buttons_rx.recv() of the loop under Message::Pause(true): the loop
\* goes on while the message is Pause(true) and ends on any other message
PauseRecvNoReset ==
    /\ pc = "pause"
    /\ consumed < Len(sent)
    /\ consumed' = consumed + 1
    /\ IF sent[consumed + 1] = Pause(TRUE)
       THEN UNCHANGED pc
       ELSE pc' = "drain"
    /\ UNCHANGED <<config, iteration, upd, cycles, busy_time, advisories, last_tick, now_local,
                   sleep_for, result, ppu, frame, sent, tx_alive, main, time>>

PauseRecv ==
    /\ pc = "pause"
    /\ consumed < Len(sent)
    /\ consumed' = consumed + 1
    /\ IF sent[consumed + 1] = Pause(TRUE)
       THEN UNCHANGED <<pc, last_tick>>
       ELSE pc' = "drain" /\ last_tick' = clock
    /\ UNCHANGED <<config, iteration, upd, cycles, busy_time, advisories, now_local, sleep_for,
                   result, ppu, frame, sent, tx_alive, main, time>>

\* recv() on an empty channel whose sender is gone: expect("sender closed")
PauseSenderClosed ==
    /\ pc = "pause"
    /\ consumed = Len(sent)
    /\ ~tx_alive
    /\ pc' = "panicked"
    /\ result' = "Panic"
    /\ UNCHANGED <<config, iteration, upd, cycles, busy_time, advisories, last_tick, now_local,
                   sleep_for, ppu, frame, chan, main, time>>

\* the CPU collaborator: its tick fails once fail_after ticks have succeeded
TickFails == fail_after # Never /\ cpu_steps >= fail_after

CpuTickUpdatesOnError ==
    /\ pc = "tick"
    /\ IF TickFails
       THEN /\ result' = "Err"
            /\ pc' = "returned"
            /\ ppu_updates' = ppu_updates + PPU_PER_CPU
            /\ UNCHANGED <<cpu_steps, upd>>
       ELSE /\ cpu_steps' = cpu_steps + 1
            /\ pc' = "update"
            /\ upd' = 0
            /\ UNCHANGED <<result, ppu_updates>>
    /\ UNCHANGED <<config, iteration, cycles, busy_time, advisories, last_tick, now_local, sleep_for,
                   px, py, buttons, pointed_pixel, frame, chan, main, time>>

\* cpu.tick(&mut ppu), and the return of its error
CpuTick ==
    /\ pc = "tick"
    /\ IF TickFails
       THEN /\ result' = "Err"
            /\ pc' = "returned"
            /\ UNCHANGED <<cpu_steps, upd>>
       ELSE /\ cpu_steps' = cpu_steps + 1
            /\ pc' = "update"
            /\ upd' = 0
            /\ UNCHANGED result
    /\ UNCHANGED <<config, iteration, cycles, busy_time, advisories, last_tick, now_local, sleep_for,
                   px, py, buttons, pointed_pixel, ppu_updates, frame, chan, main, time>>

EndOfUpdateFourPasses ==
    IF upd < PPU_PER_CPU
    THEN /\ pc' = "update"
         /\ upd' = upd + 1
         /\ UNCHANGED iteration
    ELSE /\ upd' = 0
         /\ IF iteration + 1 < ITER_PER_CYCLE
            THEN iteration' = iteration + 1 /\ pc' = StepStart
            ELSE iteration' = iteration /\ pc' = "batch_end"

\* the end of one pass of `for _ in 0..3`, and of the inner step after the
\* last pass
EndOfUpdate ==
    IF upd + 1 < PPU_PER_CPU
    THEN /\ pc' = "update"
         /\ upd' = upd + 1
         /\ UNCHANGED iteration
    ELSE /\ upd' = 0
         /\ IF iteration + 1 < ITER_PER_CYCLE
            THEN iteration' = iteration + 1 /\ pc' = StepStart
            ELSE iteration' = iteration /\ pc' = "batch_end"

\* ppu.update(cpu, writer).  The PPU collaborator draws into the writer and
\* publishes frames as it sees fit; both do nothing on a Dummy writer.
PpuUpdate ==
    /\ pc = "update"
    /\ ppu_updates' = ppu_updates + 1
    /\ IF WriterIsReal
       THEN /\ \E draws \in BOOLEAN, p \in DrawnPixels, c \in Colors :
                 staging' = IF draws THEN draw_pixel(staging, p[1], p[2], c) ELSE staging
            /\ \E renders \in BOOLEAN :
                 pc' = IF renders THEN "render_lock" ELSE "sample"
            /\ UNCHANGED <<upd, iteration>>
       ELSE /\ EndOfUpdate
            /\ UNCHANGED staging
    /\ UNCHANGED <<config, cycles, busy_time, advisories, last_tick, now_local, sleep_for, result,
                   px, py, buttons, pointed_pixel, cpu_steps, surface, lock, poisoned,
                   copy_idx, published, chan, main, time>>

RenderFrameNoLock ==
    /\ pc = "render_lock"
    /\ pc' = "render_copy"
    /\ copy_idx' = 0
    /\ UNCHANGED <<config, iteration, upd, cycles, busy_time, advisories, last_tick, now_local,
                   sleep_for, result, ppu, staging, surface, lock, poisoned, published,
                   chan, main, time>>

\* render_frame: reader_pixels.lock().expect("failed to lock")
RenderFrameLock ==
    /\ pc = "render_lock"
    /\ lock = "free"
    /\ IF poisoned
       THEN /\ pc' = "panicked"
            /\ result' = "Panic"
            /\ UNCHANGED <<lock, copy_idx>>
       ELSE /\ pc' = "render_copy"
            /\ lock' = "emu"
            /\ copy_idx' = 0
            /\ UNCHANGED result
    /\ UNCHANGED <<config, iteration, upd, cycles, busy_time, advisories, last_tick, now_local,
                   sleep_for, ppu, staging, surface, poisoned, published, chan, main,
                   time>>

\* render_frame: frame_mut().clone_from_slice(pixels), one byte of it
RenderFrameCopy ==
    /\ pc = "render_copy"
    /\ copy_idx < Cardinality(TrackedBytes)
    /\ surface' = [surface EXCEPT ![NthTracked(copy_idx)] = staging[NthTracked(copy_idx)]]
    /\ copy_idx' = copy_idx + 1
    /\ UNCHANGED <<config, sched, ppu, staging, lock, poisoned, published, chan, main,
                   time>>

\* render_frame: the copy is complete and the guard is dropped
RenderFrameUnlock ==
    /\ pc = "render_copy"
    /\ copy_idx = Cardinality(TrackedBytes)
    /\ lock' = "free"
    /\ published' = staging
    /\ pc' = "sample"
    /\ UNCHANGED <<config, iteration, upd, cycles, busy_time, advisories, last_tick, now_local,
                   sleep_for, result, ppu, staging, surface, poisoned, copy_idx, chan,
                   main, time>>

\* the source range of the sample lies inside the frame
SampleInRange == px >= 0 /\ py >= 0 /\ PixelOffset(px, py) + SampleSrcLen <= FrameSize

\* the bytes a .. a + SampleSrcLen of the surface at the pointed pixel
SampleSource == [k \in 1..SampleSrcLen |-> ByteAt(surface, PixelOffset(px, py) + k - 1)]

\* ppu.pointed_pixel[..2].clone_from_slice(&pixels.lock()...frame_mut()[a..a+3]):
\* the slice index and clone_from_slice's length check both panic with the
\* guard alive, which poisons the Mutex
Sample ==
    /\ pc = "sample"
    /\ lock = "free"
    /\ IF poisoned
       THEN /\ pc' = "panicked"
            /\ result' = "Panic"
            /\ UNCHANGED <<poisoned, pointed_pixel, upd, iteration>>
       ELSE IF ~SampleInRange \/ SampleDestLen # SampleSrcLen
       THEN /\ pc' = "panicked"
            /\ result' = "Panic"
            /\ poisoned' = TRUE
            /\ UNCHANGED <<pointed_pixel, upd, iteration>>
       ELSE /\ pointed_pixel' = [k \in 1..Len(pointed_pixel) |->
                                    IF k <= SampleDestLen THEN SampleSource[k]
                                    ELSE pointed_pixel[k]]
            /\ EndOfUpdate
            /\ UNCHANGED <<poisoned, result>>
    /\ UNCHANGED <<config, cycles, busy_time, advisories, last_tick, now_local, sleep_for, px, py,
                   buttons, cpu_steps, ppu_updates, staging, surface, lock, copy_idx,
                   published, chan, main, time>>

LimitReachedNonStrict(c, m) == m # NoLimit /\ c >= m

LimitReachedOnEqual(c, m) == m # NoLimit /\ c = m

LimitReachedNoOption(c, m) == c > m

\* `if let Some(max_cycles) = max_cycles { if cycles > max_cycles {..} }`
LimitReached(c, m) == m # NoLimit /\ c > m

ExpectedTimeSpentHalf(c) == c \div 2

\* Duration::from_secs_f64((1.0 / CPU_FREQ) * cycles as f64), in clock periods
ExpectedTimeSpent(c) == c

BehindNonStrict(busy, c) ==
    c % 1000 = 0 /\ busy - ExpectedTimeSpent(c) >= BehindThreshold

\* `cycles % 1000 == 0 && (busy_time - expected_time_spent) > 0.2 s`
Behind(busy, c) ==
    c % 1000 = 0 /\ busy - ExpectedTimeSpent(c) > BehindThreshold

\* lines 149-173 up to the sleep: count the batch, test the limit, account
\* the time and decide whether to sleep or to print "emulation behind".
BatchEnd ==
    /\ pc = "batch_end"
    /\ cycles < MaxBatches * ITER_PER_CYCLE
    /\ cycles' = cycles + ITER_PER_CYCLE
    /\ IF LimitReached(cycles', max_cycles)
       THEN /\ result' = "Ok"
            /\ pc' = "returned"
            /\ UNCHANGED <<now_local, busy_time, sleep_for, advisories, last_tick,
                           iteration>>
       ELSE /\ now_local' = clock
            /\ busy_time' = busy_time + (clock - last_tick)
            /\ iteration' = 0
            /\ UNCHANGED result
            /\ IF ExpectedTimeSpent(cycles') > busy_time'
               THEN /\ sleep_for' = ExpectedTimeSpent(cycles') - busy_time'
                    /\ pc' = "sleep"
                    /\ UNCHANGED <<last_tick, advisories>>
               ELSE /\ sleep_for' = 0
                    /\ advisories' = IF Behind(busy_time', cycles')
                                     THEN advisories + 1
                                     ELSE advisories
                    /\ last_tick' = clock
                    /\ pc' = StepStart
    /\ UNCHANGED <<config, upd, ppu, frame, chan, main, time>>

\* thread::sleep(expected_time_spent - busy_time); last_tick = now
Sleep ==
    /\ pc = "sleep"
    /\ clock' = clock + sleep_for
    /\ last_tick' = now_local
    /\ pc' = StepStart
    /\ UNCHANGED <<config, iteration, upd, cycles, busy_time, advisories, now_local, sleep_for,
                   result, ppu, frame, chan, main, paused_time, skipped_time>>

\* the closure of thread::spawn in run_cpu: Ok is unreachable!(), Err panics
ThreadExit ==
    /\ mode = "interactive"
    /\ pc = "returned"
    /\ pc' = "panicked"
    /\ UNCHANGED <<config, iteration, upd, cycles, busy_time, advisories, last_tick, now_local,
                   sleep_for, result, ppu, frame, chan, main, time>>

\* real time passes while the emulation thread drains, waits in the pause
\* loop, or has finished a batch
Advance ==
    /\ pc \in {"drain", "pause", "batch_end"}
    /\ clock + TimeStep <= MaxTime
    /\ clock' = clock + TimeStep
    /\ paused_time' = IF pc = "pause" THEN paused_time + TimeStep ELSE paused_time
    /\ UNCHANGED <<config, sched, ppu, frame, chan, main, skipped_time>>

\* the thread is descheduled for a long time at the end of a batch, once in
\* a run
Stall ==
    /\ pc = "batch_end"
    /\ clock <= MaxTime
    /\ clock' = clock + LongStall
    /\ UNCHANGED <<config, sched, ppu, frame, chan, main, paused_time, skipped_time>>

(***************************************************************************)
(* run_cpu: the closure of event_loop.run, on the presentation thread.     *)
(***************************************************************************)
\* control_tx.send(msg).expect("failed to send"): the send fails once the
\* receiver is gone, and the panic unwinds the closure, dropping control_tx
Send(msg) ==
    /\ Len(sent) < MaxMsgs
    /\ IF EmuFinished
       THEN /\ main_pc' = "panicked"
            /\ tx_alive' = FALSE
            /\ UNCHANGED sent
       ELSE /\ sent' = Append(sent, msg)
            /\ main_pc' = "poll"
            /\ UNCHANGED tx_alive
    /\ UNCHANGED <<config, sched, ppu, frame, consumed, window_size, handle, displayed,
                   time>>

\* WindowEvent::CloseRequested: ControlFlow::Exit, and the closure (with
\* control_tx) is dropped when the loop ends
EventCloseRequested ==
    /\ main_pc = "idle"
    /\ main_pc' = "exited"
    /\ tx_alive' = FALSE
    /\ UNCHANGED <<config, sched, ppu, frame, sent, consumed, window_size, handle,
                   displayed, time>>

\* WindowEvent::Focused(f)
EventFocused ==
    /\ main_pc = "idle"
    /\ \E f \in BOOLEAN : Send(Pause(~f))

\* WindowEvent::CursorMoved
EventCursorMoved ==
    /\ main_pc = "idle"
    /\ \E pos \in CursorPositions : Send(PixelPointed(pos[1], pos[2]))

\* WindowEvent::KeyboardInput with a key of the table
EventKeyboardInput ==
    /\ main_pc = "idle"
    /\ \E name \in KeysPressed, pressed \in BOOLEAN : Send(Button(name, pressed))

\* any other event (`_ => {}`), among them the resize of the window
EventOther ==
    /\ main_pc = "idle"
    /\ \E size \in WindowSizes : window_size' = size
    /\ main_pc' = "poll"
    /\ UNCHANGED <<config, sched, ppu, frame, chan, handle, displayed, time>>

\* handle.lock().unwrap().as_ref().unwrap().is_finished(), the take() of the
\* handle, and `Instant::now().duration_since(last) > wait_time`, whose
\* outcome depends on the presentation thread's own timing
PollEmulation ==
    /\ main_pc = "poll"
    /\ IF handle = "None"
       THEN /\ main_pc' = "panicked"
            /\ tx_alive' = FALSE
            /\ UNCHANGED handle
       ELSE IF EmuFinished
       THEN /\ handle' = "None"
            /\ main_pc' = "idle"
            /\ UNCHANGED tx_alive
       ELSE /\ \E due \in BOOLEAN : main_pc' = IF due THEN "redraw" ELSE "idle"
            /\ UNCHANGED <<handle, tx_alive>>
    /\ UNCHANGED <<config, sched, ppu, frame, sent, consumed, window_size, displayed,
                   time>>

\* Screen::redraw: pixels.lock().expect("failed to lock")
RedrawLock ==
    /\ main_pc = "redraw"
    /\ lock = "free"
    /\ IF poisoned
       THEN /\ main_pc' = "panicked"
            /\ tx_alive' = FALSE
            /\ UNCHANGED lock
       ELSE /\ main_pc' = "render"
            /\ lock' = "main"
            /\ UNCHANGED tx_alive
    /\ UNCHANGED <<config, sched, ppu, staging, surface, poisoned, copy_idx, published,
                   sent, consumed, window_size, handle, displayed, time>>

\* Screen::redraw: render() presents the frame, and the guard is dropped
RedrawRender ==
    /\ main_pc = "render"
    /\ displayed' = surface
    /\ lock' = "free"
    /\ main_pc' = "idle"
    /\ UNCHANGED <<config, sched, ppu, staging, surface, poisoned, copy_idx, published,
                   chan, window_size, handle, time>>

(***************************************************************************)
(* The system.                                                             *)
(***************************************************************************)
Emulation ==
    \/ DrainRecv
    \/ DrainEmpty
    \/ PauseRecv
    \/ PauseSenderClosed
    \/ CpuTick
    \/ PpuUpdate
    \/ RenderFrameLock
    \/ RenderFrameCopy
    \/ RenderFrameUnlock
    \/ Sample
    \/ BatchEnd
    \/ Sleep
    \/ ThreadExit

Presentation ==
    \/ EventCloseRequested
    \/ EventFocused
    \/ EventCursorMoved
    \/ EventKeyboardInput
    \/ EventOther
    \/ PollEmulation
    \/ RedrawLock
    \/ RedrawRender

Next == Emulation \/ Presentation \/ Advance \/ Stall

Spec == Init /\ [][Next]_vars

\* run_cpu_headless_for alone: only the emulation thread runs, and it is
\* always scheduled; thread::sleep returns
NextHeadlessFor == CpuTick \/ PpuUpdate \/ BatchEnd \/ Sleep \/ Advance \/ Stall

SpecHeadlessFor ==
    /\ InitHeadlessFor
    /\ [][NextHeadlessFor]_vars
    /\ WF_vars(CpuTick \/ PpuUpdate \/ BatchEnd \/ Sleep)

\* the Message::Button arm of the drain applied to a Button message of any
\* key of the table, received as soon as it is sent
ButtonArm ==
    /\ pc = "drain"
    /\ consumed = Len(sent)
    /\ Len(sent) < MaxMsgs
    /\ \E name \in ButtonNames, pressed \in BOOLEAN :
         /\ sent' = Append(sent, Button(name, pressed))
         /\ buttons' = SetButton(buttons, name, pressed)
    /\ consumed' = consumed + 1
    /\ UNCHANGED <<config, sched, px, py, pointed_pixel, cpu_steps, ppu_updates, frame,
                   tx_alive, main, time>>

\* the button state under every sequence of Button messages: the drain of
\* the first inner step of run_cpu, with a user who only types
SpecButtons == InitInteractive /\ [][ButtonArm]_vars

\* both headless entry points, with and without a cycle limit
SpecHeadless == (InitHeadlessFor \/ InitHeadless) /\ [][NextHeadlessFor]_vars

(***************************************************************************)
(* Vocabulary of the properties.                                           *)
(***************************************************************************)
\* the messages the scheduler has received so far, in send order
Drained == SubSeq(sent, 1, consumed)

OnlyButtons(log) == \A i \in 1..Len(log) : log[i][1] = "Button"

ButtonMessages(log, name) == {i \in 1..Len(log) : log[i][1] = "Button" /\ log[i][2] = name}

Last(S) == CHOOSE i \in S : \A j \in S : j <= i

\* the most recent value sent for a button, FALSE (the default) if none was
MostRecent(log, name) ==
    IF ButtonMessages(log, name) = {} THEN FALSE
    ELSE log[Last(ButtonMessages(log, name))][3]

\* the button read at each index of the shift register
NameOfIndex(idx) ==
    CASE idx = 0 -> "A1" [] idx = 1 -> "B1" [] idx = 2 -> "Select1" [] idx = 3 -> "Start1"
      [] idx = 4 -> "Up1" [] idx = 5 -> "Down1" [] idx = 6 -> "Left1" [] idx = 7 -> "Right1"
      [] idx = 8 -> "A2" [] idx = 9 -> "B2" [] idx = 10 -> "Select2" [] idx = 11 -> "Start2"
      [] idx = 12 -> "Up2" [] idx = 13 -> "Down2" [] idx = 14 -> "Left2" [] idx = 15 -> "Right2"

ButtonsReflect(log) ==
    \A idx \in 0..15 : get_by_index(buttons, idx) = MostRecent(log, NameOfIndex(idx))

\* the scheduler is between the end of a drain and the end of the step: the
\* CPU step and the PPU updates, which read the button state
InStep == pc \in {"tick", "update", "render_lock", "render_copy", "sample"}

\* a Pause(true) has been received and no Pause(false) after it
AwaitingUnpause ==
    \E i \in 1..consumed :
        /\ sent[i] = Pause(TRUE)
        /\ \A j \in (i + 1)..consumed : sent[j] # Pause(FALSE)

\* min(max(floor(pointer * dimension / window_size), 0), dimension - 1)
ExpectedPixel(pointer, dimension, size) ==
    Min(Max((pointer * dimension) \div size, 0), dimension - 1)

C2_Original ==
    (fail_after # Never /\ pc = "returned") =>
        /\ result = "Err"
        /\ cpu_steps = fail_after
        /\ ppu_updates = PPU_PER_CPU * fail_after

\* C2 amended: a run never returns Err except after exactly N successful
\* steps and 3 * N PPU updates, it never performs a PPU update for step
\* N + 1, and it returns Ok instead only in bounded mode, when the limit is
\* exceeded at a batch end before step N + 1 is attempted.
C2_ErrAfterExactlyN ==
    /\ result = "Err" =>
         /\ fail_after # Never
         /\ cpu_steps = fail_after
         /\ ppu_updates = PPU_PER_CPU * fail_after
    /\ fail_after # Never =>
         /\ cpu_steps <= fail_after
         /\ ppu_updates <= PPU_PER_CPU * fail_after
    /\ (result = "Ok" /\ fail_after # Never) =>
         /\ max_cycles # NoLimit
         /\ fail_after >= ITER_PER_CYCLE * ((max_cycles \div ITER_PER_CYCLE) + 1)

C2_Witness ==
    /\ result = "Err"
    /\ pc = "returned"
    /\ fail_after = ITER_PER_CYCLE + 1
    /\ cpu_steps = ITER_PER_CYCLE + 1
    /\ ppu_updates = PPU_PER_CPU * (ITER_PER_CYCLE + 1)

\* C3: a run without a cycle limit never returns Ok.
C3_UnboundedNeverOk == max_cycles = NoLimit => result # "Ok"

C3_Witness ==
    /\ max_cycles = NoLimit
    /\ cycles = MaxBatches * ITER_PER_CYCLE
    /\ result = "None"

\* C4: when the messages received up to the end of a step's drain are all
\* Button messages, the button state read during the step has, at each of
\* the 16 indices, the most recent value sent for that button, and the
\* default value where none was sent.
C4_ButtonsMostRecent ==
    (WriterIsReal /\ InStep /\ OnlyButtons(Drained)) => ButtonsReflect(Drained)

C4_Witness ==
    /\ pc = "sample"
    /\ ppu_updates = 1
    /\ Drained = <<Button("Start1", TRUE), Button("Right2", TRUE)>>
    /\ buttons.start1
    /\ buttons.right2

\* C5 as stated: once Pause(true) is received, no CPU step and no PPU update
\* is performed until a Pause(false) is received.
C5_Original ==
    [][AwaitingUnpause => (cpu_steps' = cpu_steps /\ ppu_updates' = ppu_updates)]_vars

\* C6 as stated: no message is lost across a pause, so the button state
\* read during a step reflects every Button message received before it.
C6_Original == (WriterIsReal /\ InStep) => ButtonsReflect(Drained)

\* C7: the time spent in the pause loop is never counted as busy time: the
\* busy time accumulated so far, plus what the next pacing point would add
\* to it (the time since last_tick), is at most the real time elapsed less
\* the time spent paused.
C7_PauseNotAccounted ==
    (InStep \/ pc \in {"drain", "batch_end"}) =>
        busy_time + (clock - last_tick) <= clock - paused_time

C7_Witness ==
    /\ Drained = <<Pause(TRUE), Pause(FALSE)>>
    /\ paused_time > 0
    /\ pc = "tick"
    /\ last_tick = clock
    /\ last_tick > 0

\* C8: whenever the presentation thread reads the shared surface, the
\* surface equals the staging buffer of the last completed publish (the
\* initial frame before the first).
C8_NoTornRead == main_pc = "render" => surface = published

C8_Witness ==
    /\ main_pc = "render"
    /\ published # InitialFrame
    /\ surface = published

\* C9 as stated: a PixelPointed(x, y) resolves, on each axis, to
\* min(max(floor(pointer * dimension / window_size), 0), dimension - 1).
C9_Original ==
    [][(pc = "drain" /\ consumed' = consumed + 1 /\ sent[consumed + 1][1] = "PixelPointed") =>
          /\ px' = ExpectedPixel(sent[consumed + 1][2], WIDTH, window_size[1])
          /\ py' = ExpectedPixel(sent[consumed + 1][3], HEIGHT, window_size[2])]_vars

\* C10: the stored pointer coordinates are always inside the frame, and so
\* is the byte range sampled at them.
C10_PointerInRange ==
    /\ 0 <= px /\ px <= WIDTH - 1
    /\ 0 <= py /\ py <= HEIGHT - 1
    /\ PixelOffset(px, py) + SampleSrcLen <= FrameSize

C10_Witness ==
    /\ consumed > 0
    /\ sent[consumed] = PixelPointed(-5, 500)
    /\ px = WIDTH - 1
    /\ py = HEIGHT - 1


\* C11 as stated: with a Real writer and a Real reader, the sample after
\* each PPU update completes without failure and leaves in the pointed-pixel
\* buffer the R, G, B bytes of the shared surface at the resolved pointer
\* coordinates.
C11_Original ==
    [][(WriterIsReal /\ ReaderIsReal /\ pc = "sample" /\ pc' # "sample") =>
          /\ pc' # "panicked"
          /\ pointed_pixel' = SampleSource]_vars

\* C12: falling behind never skips work and never stops the run.  However
\* far the busy time is ahead of the expected time, a batch that ends has
\* executed all its CPU steps, each with its PPU updates; the end of a
\* batch returns only when the cycle limit is exceeded; when the run is not
\* ahead it starts the next batch without sleeping; it sleeps only when it
\* is ahead; and it prints one advisory message exactly when it is behind
\* by more than 0.2 s.
C12_BehindNeverSkips ==
    /\ [](pc = "batch_end" =>
            /\ cpu_steps = cycles + ITER_PER_CYCLE
            /\ ppu_updates = PPU_PER_CPU * cpu_steps)
    /\ [](pc = "sleep" => busy_time < ExpectedTimeSpent(cycles))
    /\ [][(pc = "batch_end" /\ pc' # "batch_end") =>
            /\ cycles' = cycles + ITER_PER_CYCLE
            /\ <<cpu_steps, ppu_updates>>' = <<cpu_steps, ppu_updates>>
            /\ pc' = "returned" <=> (max_cycles # NoLimit /\ cycles' > max_cycles)
            /\ (pc' # "returned" /\ busy_time' >= ExpectedTimeSpent(cycles')) =>
                 (pc' = StepStart /\ iteration' = 0 /\ clock' = clock)
            /\ advisories' =
                 IF pc' # "returned" /\ busy_time' - ExpectedTimeSpent(cycles') > BehindThreshold
                 THEN advisories + 1
                 ELSE advisories]_vars

C12_Witness ==
    /\ pc = "batch_end"
    /\ cycles = ITER_PER_CYCLE
    /\ cpu_steps = 2 * ITER_PER_CYCLE
    /\ ppu_updates = PPU_PER_CPU * cpu_steps
    /\ busy_time - ExpectedTimeSpent(cycles) > BehindThreshold
    /\ advisories = 1

\* C13 as stated: in interactive mode, the liveness poll that finds the
\* emulation thread finished after the CPU returned an error aborts the
\* process on that very poll; the presentation loop does not go back to
\* handling events.
C13_Original ==
    [][(mode = "interactive" /\ main_pc = "poll" /\ EmuFinished /\ result = "Err"
          /\ handle = "Some" /\ main_pc' # main_pc) =>
             main_pc' = "panicked"]_vars

\* C14: an inner step is the drain of every queued message, then one CPU
\* step, then three PPU updates.  Between inner steps the PPU updates
\* performed are 3 times the successful CPU steps; inside a step they are
\* those of the earlier steps plus the passes done so far, so none precedes
\* the CPU step of its own inner step; the CPU step is entered only from a
\* drain that found the queue empty, and messages are received nowhere else.
C14_StepOrder ==
    /\ [](pc \in {"drain", "pause", "tick", "batch_end", "sleep"} =>
            ppu_updates = PPU_PER_CPU * cpu_steps)
    /\ [](pc = "update" =>
            /\ cpu_steps >= 1
            /\ upd < PPU_PER_CPU
            /\ ppu_updates = PPU_PER_CPU * (cpu_steps - 1) + upd)
    /\ [](pc \in {"render_lock", "render_copy", "sample"} =>
            /\ upd < PPU_PER_CPU
            /\ ppu_updates = PPU_PER_CPU * (cpu_steps - 1) + upd + 1)
    /\ [][/\ cpu_steps' # cpu_steps =>
               (pc = "tick" /\ cpu_steps' = cpu_steps + 1 /\ ppu_updates' = ppu_updates)
          /\ ppu_updates' # ppu_updates =>
               (pc = "update" /\ ppu_updates' = ppu_updates + 1 /\ cpu_steps' = cpu_steps)
          /\ (WriterIsReal /\ pc' = "tick" /\ pc # "tick") =>
               (pc = "drain" /\ consumed = Len(sent))
          /\ consumed' # consumed => pc \in {"drain", "pause"}]_vars

C14_Witness ==
    /\ mode = "headless"
    /\ pc = "update"
    /\ upd = PPU_PER_CPU - 1
    /\ cpu_steps = ITER_PER_CYCLE + 1
    /\ ppu_updates = PPU_PER_CPU * ITER_PER_CYCLE + upd

\* C15: in bounded mode the cycle limit L is tested at the end of a batch
\* only, with a strict comparison.  The run has returned Ok exactly when a
\* batch end has found the cycle count above L, which happens at the first
\* such batch end: the count at the return is above L, the count of the
\* batch before was not, and the CPU steps executed are
\* ITER_PER_CYCLE * (L \div ITER_PER_CYCLE + 1).  The returning batch end
\* does no pacing: it reads no time and does not sleep.
C15_LimitAtBatchEnd ==
    /\ [](result = "Ok" =>
            /\ pc = "returned"
            /\ cycles > max_cycles
            /\ cycles - ITER_PER_CYCLE <= max_cycles
            /\ cycles = ITER_PER_CYCLE * ((max_cycles \div ITER_PER_CYCLE) + 1)
            /\ cpu_steps = cycles)
    /\ [][(pc = "batch_end" /\ pc' # "batch_end") =>
            /\ cycles' = cycles + ITER_PER_CYCLE
            /\ result' = "Ok" <=> cycles' > max_cycles
            /\ result' = "Ok" =>
                 /\ pc' = "returned"
                 /\ UNCHANGED <<clock, busy_time, last_tick, now_local, sleep_for, advisories>>]_vars
    /\ [][result' # result => (pc = "batch_end" \/ pc = "tick")]_vars

C15_Witness ==
    /\ mode = "headless_for"
    /\ max_cycles = ITER_PER_CYCLE - 1
    /\ result = "Ok"
    /\ pc = "returned"
    /\ cpu_steps = ITER_PER_CYCLE
    /\ clock = TimeStep
    /\ busy_time = 0

\* C16 as stated: the busy time accounted at a pacing point (the busy time
\* accumulated so far plus the time since last_tick, which the pacing point
\* adds) is the real time elapsed since the start less exactly the time
\* spent blocked in pauses.
C16_Original ==
    (InStep \/ pc \in {"drain", "batch_end"}) =>
        busy_time + (clock - last_tick) = clock - paused_time

\* C16 amended: the busy time accounted at a pacing point is the real time
\* elapsed since the start, less the time spent blocked in pauses, less the
\* un-paused time that had elapsed between the previous setting of
\* last_tick and the start of each pause: the reset of last_tick at the
\* resume drops that time as well.
C16_PauseDropsWholeInterval ==
    (InStep \/ pc \in {"drain", "batch_end"}) =>
        busy_time + (clock - last_tick) = clock - paused_time - skipped_time

C16_Witness ==
    /\ Drained = <<Pause(TRUE), Pause(FALSE)>>
    /\ pc = "tick"
    /\ paused_time = TimeStep
    /\ skipped_time = TimeStep
    /\ clock = 2 * TimeStep
    /\ busy_time + (clock - last_tick) = 0

\* C17: after a batch that does not end the run, the scheduler sleeps
\* exactly the expected time of the cycles stepped so far (cycles clock
\* periods) less the accumulated busy time when that is positive, and does
\* not sleep otherwise; so, when no pause has occurred, at the start of
\* every batch the real time elapsed is at least the expected time of the
\* batches completed: the emulation never runs ahead of the virtual clock.
C17_NeverAhead ==
    /\ pc = "sleep" => (sleep_for > 0 /\ sleep_for = cycles - busy_time)
    /\ (pc = "tick" /\ iteration = 0 /\ cycles > 0) =>
          /\ sleep_for = Max(cycles - busy_time, 0)
          /\ clock = now_local + sleep_for
    /\ (pc \in {"drain", "tick"} /\ iteration = 0 /\ paused_time = 0 /\ skipped_time = 0) =>
          clock >= cycles

C17_Witness ==
    /\ pc = "tick"
    /\ iteration = 0
    /\ cycles = 2 * ITER_PER_CYCLE
    /\ busy_time = TimeStep
    /\ sleep_for = cycles - busy_time
    /\ clock = cycles

\* the four bytes draw_pixel stores for a colour
PixelBytes(color) == <<color[1], color[2], color[3], ALPHA>>

\* buf with the four bytes of pixel p set to colour c and no other change
DrawnFrame(buf, p, c) ==
    [o \in DOMAIN buf |->
        IF o >= PixelOffset(p[1], p[2]) /\ o < PixelOffset(p[1], p[2]) + 4
        THEN PixelBytes(c)[o - PixelOffset(p[1], p[2]) + 1]
        ELSE buf[o]]

\* C18: the staging buffer changes only in a PPU update on a Real writer,
\* by a draw_pixel that sets the four bytes at 4 * (y * WIDTH + x) to
\* r, g, b, 255 and changes no other staging byte and no byte of the shared
\* surface; the shared surface changes only inside render_frame, under the
\* lock, and when render_frame ends it equals the whole staging buffer.
C18_SurfaceEffects ==
    [][/\ staging' # staging =>
            /\ WriterIsReal
            /\ pc = "update"
            /\ surface' = surface
            /\ \E p \in DrawnPixels, c \in Colors : staging' = DrawnFrame(staging, p, c)
       /\ surface' # surface =>
            /\ pc = "render_copy"
            /\ lock = "emu"
            /\ staging' = staging
       /\ (pc = "render_copy" /\ pc' # "render_copy") =>
            /\ surface = staging
            /\ surface' = surface]_vars

C18_Witness ==
    /\ pc = "sample"
    /\ staging = DrawnFrame(InitialFrame, <<WIDTH - 1, HEIGHT - 1>>, <<255, 128, 1>>)
    /\ staging # InitialFrame
    /\ surface = staging
    /\ lock = "free"

\* C19: in a headless run (Screen::dummy) the surface operations do nothing
\* and the scheduler touches no state shared between threads: the staging
\* buffer and the surface keep their initial contents, nothing is presented,
\* the lock is never taken nor poisoned, nothing is sent nor received, the
\* run is never in the drain, the pause loop, render_frame or the sample,
\* and the pointed-pixel buffer, the buttons and the pointer coordinates
\* keep their initial values.
C19_HeadlessTouchesNothing ==
    mode # "interactive" =>
        /\ staging = InitialFrame
        /\ surface = InitialFrame
        /\ published = InitialFrame
        /\ displayed = <<>>
        /\ lock = "free"
        /\ ~poisoned
        /\ copy_idx = 0
        /\ sent = <<>>
        /\ consumed = 0
        /\ paused_time = 0
        /\ pc \in {"tick", "update", "batch_end", "sleep", "returned"}
        /\ pointed_pixel = <<0, 0, 0>>
        /\ buttons = DefaultButtons
        /\ px = 0
        /\ py = 0

C19_Witness ==
    /\ mode = "headless"
    /\ pc = "batch_end"
    /\ cycles = ITER_PER_CYCLE
    /\ ppu_updates = 2 * PPU_PER_CPU * ITER_PER_CYCLE
    /\ staging = InitialFrame
    /\ pointed_pixel = <<0, 0, 0>>

\* C20 as stated: a drain that finds the control channel empty with every
\* sender dropped is fatal to the emulation thread, as the pause loop is in
\* that case; the scheduler does not go on to step the CPU.
C20_Original ==
    [][(WriterIsReal /\ pc \in {"drain", "pause"} /\ ~tx_alive /\ consumed = Len(sent)
          /\ pc' # pc) =>
             (pc' = "panicked" /\ cpu_steps' = cpu_steps)]_vars

\* C21 as stated: the frame lock is held only for one bounded operation,
\* never by the emulation thread while it waits in the pause loop or sleeps
\* for pacing, and a redraw that goes for the lock always acquires it: the
\* presentation thread is never stopped by the lock.
C21_Original ==
    /\ [](pc \in {"pause", "sleep", "drain", "tick", "batch_end"} => lock # "emu")
    /\ [](lock = "emu" => pc = "render_copy")
    /\ [](lock = "main" => main_pc = "render")
    /\ [][(main_pc = "redraw" /\ main_pc' # main_pc) => (main_pc' = "render" /\ lock' = "main")]_vars

\* C22: get_by_index reads, at the indices 0..7, the flags A, B, Select,
\* Start, Up, Down, Left, Right of controller 1 and at 8..15 the same flags
\* of controller 2: the indices 0..15 and the 16 button names correspond one
\* to one, each index reads the most recent value received for its button,
\* setting a button changes what its own index reads and what no other
\* index reads, and every index from 16 to 255 reads false.
C22_IndexBijection ==
    /\ {NameOfIndex(idx) : idx \in 0..15} = ButtonNames
    /\ \A i, j \in 0..15 : NameOfIndex(i) = NameOfIndex(j) => i = j
    /\ \A idx \in 0..15 : get_by_index(buttons, idx) = MostRecent(Drained, NameOfIndex(idx))
    /\ \A name \in ButtonNames, pressed \in BOOLEAN :
          LET after == SetButton(buttons, name, pressed) IN
            \A idx \in 0..15 :
               get_by_index(after, idx) =
                  IF name = NameOfIndex(idx) THEN pressed ELSE get_by_index(buttons, idx)
    /\ \A idx \in 16..U8_MAX : ~get_by_index(buttons, idx)

C22_Witness ==
    /\ Drained = <<Button("Select2", TRUE), Button("Up1", TRUE)>>
    /\ get_by_index(buttons, 10)
    /\ get_by_index(buttons, 4)
    /\ \A idx \in (0..U8_MAX) \ {4, 10} : ~get_by_index(buttons, idx)

=============================================================================
